---- MODULE Spec2Model ----
(***************************************************************************)
(* Model of .github/scripts/parse_rpt.py: the CI report verifier of the    *)
(* generator flow.  The script is one straight-line module body; each      *)
(* commented section of the script is one action, and pc names the section *)
(* that runs next.  Files and directory listings are read from the         *)
(* environment at the statement that opens them; what was read is kept in  *)
(* a variable so that properties can refer to it.                          *)
(***************************************************************************)
EXTENDS Integers, Sequences, FiniteSets

VARIABLES
    pc,                     \* section of the script that runs next
    status,                 \* "running", "exited" (fell off the end), "raised"
    err,                    \* class of the uncaught exception, "" if none
    errmsg,                 \* its message (for the ValueErrors the script raises)
    out,                    \* lines printed on standard output, in order
    argv,                   \* sys.argv (argv[1] is the script name)
    _generator_is,          \* the mode flag dictionary
    cryo_library,
    drc_filename,
    lvs_filename,
    json_filename,
    lib,                    \* os.listdir('flow/reports') as observed
    drc_rpt,                \* the DRC report as opened
    expected_ldo_rpt,       \* the expected LDO DRC report fixture as opened
    lvs_rpt,                \* the LVS report as opened
    gen_files_ok,           \* what check_gen_files returned
    installed_ngspice_ver,  \* what get_ngspice_version returned
    sim_result,             \* work/prePEX_sim_result as opened
    expected_sim_result,    \* the expected simulation result fixture as opened
    sim_state,              \* the JSON sentinel as loaded
    run_dir,                \* os.listdir('simulations/run/') as observed
    run_files               \* files present under the run folders

vars == <<pc, status, err, errmsg, out, argv, _generator_is, cryo_library,
          drc_filename, lvs_filename, json_filename, lib, drc_rpt,
          expected_ldo_rpt, lvs_rpt, gen_files_ok, installed_ngspice_ver,
          sim_result, expected_sim_result, sim_state, run_dir, run_files>>

(***************************************************************************)
(* Bounds of the explored inputs.                                          *)
(***************************************************************************)
MaxDrcLines == 4
MaxFixtureLines == 2
MaxLvsLines == 2
MaxLibs == 2
MaxCompletedSims == 2
MaxFailedSims == 1

(***************************************************************************)
(* Text files.  A file is its content as a string; lines end in "\n"       *)
(* except possibly the last one.                                           *)
(***************************************************************************)
NoFile == [exists |-> FALSE, text |-> ""]

File(t) == [exists |-> TRUE, text |-> t]

SeqsUpTo(S, n) == UNION {[1..k -> S] : k \in 0..n}

RECURSIVE Unlines(_)
Unlines(ls) == IF ls = <<>> THEN "" ELSE Head(ls) \o "\n" \o Unlines(Tail(ls))

\* The text without its final newline (the last line left unterminated).
Chomp(t) == IF t = "" THEN "" ELSE SubSeq(t, 1, Len(t) - 1)

TextsOf(S, n) ==
    {Unlines(ls) : ls \in SeqsUpTo(S, n)} \cup {Chomp(Unlines(ls)) : ls \in SeqsUpTo(S, n)}

\* f.readlines(), and iteration over an open file: the lines of the text,
\* each with its line ending, the last one possibly without.
RECURSIVE readlines(_)
readlines(text) ==
    IF text = "" THEN <<>>
    ELSE LET nl == {i \in 1..Len(text) : SubSeq(text, i, i) = "\n"}
         IN  IF nl = {} THEN <<text>>
             ELSE LET k == CHOOSE i \in nl : \A j \in nl : i <= j
                  IN  <<SubSeq(text, 1, k)>> \o readlines(SubSeq(text, k + 1, Len(text)))

\* sum(1 for line in open(drc_filename))
CountLines(text) == Len(readlines(text))

\* tail -1 <file>: the last line of the file, "" for an empty file.
TailLastLine(text) ==
    LET ls == readlines(text) IN IF ls = <<>> THEN "" ELSE ls[Len(ls)]

\* `needle in hay` and re.search(needle, hay) for a literal needle.
Contains(hay, needle) ==
    \E i \in 1..(Len(hay) - Len(needle) + 1) :
        SubSeq(hay, i, i + Len(needle) - 1) = needle

(***************************************************************************)
(* Constants of the script.                                                *)
(***************************************************************************)
DrcLineLimit == 3

prev_ngspice_ver == 41

LDO == "sky130hvl_ldo"
TEMP == "sky130hd_temp"
CRYO == "sky130XX_cryo"

Unbound == "<unbound name>"

\* Python's exception hierarchy: IndexError and KeyError derive from
\* LookupError; FileNotFoundError derives from OSError.
LookupErrorKinds == {"IndexError", "KeyError"}

Sections == <<"mode", "discover", "declare", "drc", "lvs", "flow",
              "sim_version", "sim_state", "sim_runs", "end">>

\* Position of a section in the script.
Stage(p) == CHOOSE i \in 1..Len(Sections) : Sections[i] = p

(***************************************************************************)
(* The inputs explored.                                                    *)
(***************************************************************************)
LibNames == {"sky130hd_cryo", "sky130hs_cryo"}

ArgLists ==
    {<<"parse_rpt.py">>, <<"parse_rpt.py", LDO>>, <<"parse_rpt.py", "sky130hd_cryo", LDO>>}
        \cup {<<"parse_rpt.py", a>> : a \in LibNames}

NoDir == [exists |-> FALSE, entries |-> <<>>]

Dir(es) == [exists |-> TRUE, entries |-> es]

\* Listings of flow/reports: absent, empty, or distinct library directories
\* in the arbitrary order os.listdir returns them.
ReportDirs ==
    {NoDir} \cup {Dir(es) : es \in {q \in SeqsUpTo(LibNames, MaxLibs) :
                                       \A i, j \in 1..Len(q) : i # j => q[i] # q[j]}}

DrcLineSet == {"--", "v"}

DrcFiles == {NoFile} \cup {File(t) : t \in TextsOf(DrcLineSet, MaxDrcLines)}

ExpectedLdoFiles == {File(Unlines(ls)) : ls \in SeqsUpTo(DrcLineSet, MaxFixtureLines)}

LvsLineSet == {"lvs failed!", "Failed", "ok"}

LvsFiles == {NoFile} \cup {File(t) : t \in TextsOf(LvsLineSet, MaxLvsLines)}

NgspiceVersions == {0, prev_ngspice_ver, prev_ngspice_ver + 1}

SimResultFiles == {File("f=1\n"), File("f=2\n")}

SimStates == [failed_sims : 0..MaxFailedSims, completed_sims : 0..MaxCompletedSims]

RunFileNames(i) == {<<i, "parameters.txt">>, <<i, "sim.log">>, <<i, "sim.sp">>}

AllRunFiles == UNION {RunFileNames(i) : i \in 1..MaxCompletedSims}

\* The run folders as left by the simulations: complete, or one file short.
RunFileSets == {AllRunFiles} \cup {AllRunFiles \ {f} : f \in AllRunFiles}

RunDirs == {NoDir, Dir(<<"run_dir">>)}

(***************************************************************************)
(* The decisions of the script, as functions of what it read.              *)
(***************************************************************************)
\* Variant: the else of line 49 lost, so the cryo flag is set for every argument.
ResolveFlags_NoElse(av) ==
    LET none == [m \in {LDO, TEMP, CRYO} |-> 0]
    IN  IF Len(av) = 1 THEN [none EXCEPT ![TEMP] = 1]
        ELSE IF av[2] = LDO THEN [none EXCEPT ![LDO] = 1, ![CRYO] = 1]
                            ELSE [none EXCEPT ![CRYO] = 1]

\* Lines 38-50: the flag dictionary for an argument list.
ResolveFlags(av) ==
    LET none == [m \in {LDO, TEMP, CRYO} |-> 0]
    IN  IF Len(av) = 1 THEN [none EXCEPT ![TEMP] = 1]
        ELSE IF Len(av) > 1
             THEN IF av[2] = LDO THEN [none EXCEPT ![LDO] = 1]
                                 ELSE [none EXCEPT ![CRYO] = 1]
             ELSE none

\* Lines 62 and 84: len(sys.argv) > 1 and sys.argv[1] == cryo_library
ArgMatchesLibrary(av, library) == Len(av) > 1 /\ av[2] = library

\* Variant: the cryo paths assigned from the discovered library whatever the argument.
DeclaredFilenames_Fallback(flags, av, library) ==
    IF flags[TEMP] = 1 \/ flags[LDO] = 1
    THEN <<"work/6_final_drc.rpt", "work/6_final_lvs.rpt">>
    ELSE <<"flow/reports/" \o library \o "/cryo/6_final_drc.rpt",
           "flow/reports/" \o library \o "/cryo/6_final_lvs.rpt">>

\* Lines 59-64: the (DRC, LVS) report paths, Unbound where never assigned.
DeclaredFilenames(flags, av, library) ==
    IF flags[TEMP] = 1 \/ flags[LDO] = 1
    THEN <<"work/6_final_drc.rpt", "work/6_final_lvs.rpt">>
    ELSE IF ArgMatchesLibrary(av, library)
         THEN <<"flow/reports/" \o av[2] \o "/cryo/6_final_drc.rpt",
                "flow/reports/" \o av[2] \o "/cryo/6_final_lvs.rpt">>
         ELSE <<Unbound, Unbound>>

\* Lines 71-73: content1 == content2
LdoDrcClean(rpt, expected) == readlines(rpt) = readlines(expected)

\* Variant: the comparison of line 77 off by one.
DrcTooLong_OffByOne(text) == CountLines(text) >= DrcLineLimit

\* Line 77: the report fails when it has more than three lines.
DrcTooLong(text) == CountLines(text) > DrcLineLimit

\* Variant: the cryo report searched as a whole, as in the other modes.
CryoLvsFailed_WholeFile(text) == Contains(text, "failed")

\* Lines 85-91: 'failed' in the last line of the report.
CryoLvsFailed(text) == Contains(TailLastLine(text), "failed")

\* Variant: the search made case-insensitive on the first letter.
LvsFailed_IgnoreCase(text) == Contains(text, "failed") \/ Contains(text, "Failed")

\* Lines 96-99: 'failed' anywhere in the report.
LvsFailed(text) == Contains(text, "failed")

\* Variant: an empty listing tolerated, leaving the library name empty.
DiscoverLibrary_EmptyOk(d) ==
    IF ~d.exists THEN [raises |-> "FileNotFoundError", library |-> ""]
    ELSE IF d.entries = <<>> THEN [raises |-> "", library |-> ""]
    ELSE [raises |-> "", library |-> d.entries[1]]

\* Lines 55-56: os.listdir raises FileNotFoundError for an absent directory,
\* lib[0] raises IndexError for an empty listing; otherwise str(lib[0]).
DiscoverLibrary(d) ==
    IF ~d.exists THEN [raises |-> "FileNotFoundError", library |-> ""]
    ELSE IF d.entries = <<>> THEN [raises |-> "IndexError", library |-> ""]
    ELSE [raises |-> "", library |-> d.entries[1]]

\* Variant: the simulation check not gated on the argument count.
SimCheckEnabled_Always(av) == Len(av) >= 1

\* Line 115: the simulation check runs when no argument was given.
SimCheckEnabled(av) == Len(av) = 1

\* Variant: the two JSON file names exchanged.
JsonFilename_Swapped(flags) == IF flags[LDO] = 1 THEN "test.json" ELSE "spec.json"

\* Lines 105-108
JsonFilename(flags) == IF flags[LDO] = 1 THEN "spec.json" ELSE "test.json"

(***************************************************************************)
(* The script.                                                             *)
(***************************************************************************)
\* Lines 37-42, before the first statement that depends on the arguments.
Init ==
    /\ argv \in ArgLists
    /\ pc = "mode"
    /\ status = "running"
    /\ err = ""
    /\ errmsg = ""
    /\ out = <<>>
    /\ _generator_is = [m \in {LDO, TEMP, CRYO} |-> 0]
    /\ cryo_library = ""
    /\ drc_filename = Unbound
    /\ lvs_filename = Unbound
    /\ json_filename = Unbound
    /\ lib = NoDir
    /\ drc_rpt = NoFile
    /\ expected_ldo_rpt = NoFile
    /\ lvs_rpt = NoFile
    /\ gen_files_ok = FALSE
    /\ installed_ngspice_ver = 0
    /\ sim_result = NoFile
    /\ expected_sim_result = NoFile
    /\ sim_state = [failed_sims |-> 0, completed_sims |-> 0]
    /\ run_dir = NoDir
    /\ run_files = {}

\* Variant: the failure recorded but not raised, the script going on with
\* the next section (as the generated-file check does).
Raise_LogOnly(kind, msg) ==
    /\ status' = "running"
    /\ err' = kind
    /\ errmsg' = msg
    /\ pc' = Sections[Stage(pc) + 1]

\* An uncaught exception: the interpreter stops at the current section.
Raise(kind, msg) ==
    /\ status' = "raised"
    /\ err' = kind
    /\ errmsg' = msg
    /\ pc' = pc

\* Control passes to section p.
Goto(p) ==
    /\ pc' = p
    /\ UNCHANGED <<status, err, errmsg>>

\* The script falls off its end: exit status 0.
Exit ==
    /\ pc' = "end"
    /\ status' = "exited"
    /\ UNCHANGED <<err, errmsg>>

print(line) == out' = Append(out, line)

\* Lines 44-50
ModeResolution ==
    /\ pc = "mode" /\ status = "running"
    /\ _generator_is' = ResolveFlags(argv)
    /\ Goto("discover")
    /\ UNCHANGED <<out, argv, cryo_library, drc_filename, lvs_filename, json_filename,
                   lib, drc_rpt, expected_ldo_rpt, lvs_rpt, gen_files_ok,
                   installed_ngspice_ver, sim_result, expected_sim_result, sim_state,
                   run_dir, run_files>>

\* Lines 52-56
CryoLibraryDiscovery ==
    /\ pc = "discover" /\ status = "running"
    /\ IF _generator_is[CRYO] = 1
       THEN \E d \in ReportDirs :
              LET found == DiscoverLibrary(d)
              IN  /\ lib' = d
                  /\ IF found.raises # ""
                     THEN Raise(found.raises, "flow/reports") /\ UNCHANGED cryo_library
                     ELSE cryo_library' = found.library /\ Goto("declare")
       ELSE Goto("declare") /\ UNCHANGED <<lib, cryo_library>>
    /\ UNCHANGED <<out, argv, _generator_is, drc_filename, lvs_filename, json_filename,
                   drc_rpt, expected_ldo_rpt, lvs_rpt, gen_files_ok,
                   installed_ngspice_ver, sim_result, expected_sim_result, sim_state,
                   run_dir, run_files>>

\* Lines 58-64
FilenameDeclaration ==
    /\ pc = "declare" /\ status = "running"
    /\ LET names == DeclaredFilenames(_generator_is, argv, cryo_library)
       IN  drc_filename' = names[1] /\ lvs_filename' = names[2]
    /\ Goto("drc")
    /\ UNCHANGED <<out, argv, _generator_is, cryo_library, json_filename,
                   lib, drc_rpt, expected_ldo_rpt, lvs_rpt, gen_files_ok,
                   installed_ngspice_ver, sim_result, expected_sim_result, sim_state,
                   run_dir, run_files>>

\* Lines 67-80
DRCCheck ==
    /\ pc = "drc" /\ status = "running"
    /\ IF _generator_is[LDO] = 1
       THEN \E f \in DrcFiles, e \in ExpectedLdoFiles :
              /\ drc_rpt' = f
              /\ IF ~f.exists
                 THEN Raise("FileNotFoundError", drc_filename)
                      /\ UNCHANGED <<out, expected_ldo_rpt>>
                 ELSE /\ expected_ldo_rpt' = e
                      /\ IF LdoDrcClean(f.text, e.text)
                         THEN print("DRC is clean!") /\ Goto("lvs")
                         ELSE Raise("ValueError", "DRC failed!") /\ UNCHANGED out
       ELSE IF drc_filename = Unbound
            THEN Raise("NameError", "drc_filename")
                 /\ UNCHANGED <<out, drc_rpt, expected_ldo_rpt>>
            ELSE \E f \in DrcFiles :
                   /\ drc_rpt' = f
                   /\ UNCHANGED expected_ldo_rpt
                   /\ IF ~f.exists
                      THEN Raise("FileNotFoundError", drc_filename) /\ UNCHANGED out
                      ELSE IF DrcTooLong(f.text)
                           THEN Raise("ValueError", "DRC failed!") /\ UNCHANGED out
                           ELSE print("DRC is clean!") /\ Goto("lvs")
    /\ UNCHANGED <<argv, _generator_is, cryo_library, drc_filename, lvs_filename,
                   json_filename, lib, lvs_rpt, gen_files_ok,
                   installed_ngspice_ver, sim_result, expected_sim_result, sim_state,
                   run_dir, run_files>>

\* Lines 83-102
LVSCheck ==
    /\ pc = "lvs" /\ status = "running"
    /\ \E f \in LvsFiles :
         /\ lvs_rpt' = f
         /\ IF ArgMatchesLibrary(argv, cryo_library)
            THEN IF ~f.exists
                 THEN Raise("CalledProcessError", "tail") /\ UNCHANGED out
                 ELSE IF CryoLvsFailed(f.text)
                      THEN Raise("ValueError", "LVS failed!") /\ UNCHANGED out
                      ELSE print("LVS is clean!") /\ Goto("flow")
            ELSE IF ~f.exists
                 THEN Raise("FileNotFoundError", lvs_filename) /\ UNCHANGED out
                 ELSE IF LvsFailed(f.text)
                      THEN Raise("ValueError", "LVS failed!") /\ UNCHANGED out
                      ELSE print("LVS is clean!") /\ Goto("flow")
    /\ UNCHANGED <<argv, _generator_is, cryo_library, drc_filename, lvs_filename,
                   json_filename, lib, drc_rpt, expected_ldo_rpt, gen_files_ok,
                   installed_ngspice_ver, sim_result, expected_sim_result, sim_state,
                   run_dir, run_files>>

\* Lines 104-113; check_gen_files is an external validator returning a boolean.
ResultFileCheck ==
    /\ pc = "flow" /\ status = "running"
    /\ json_filename' = JsonFilename(_generator_is)
    /\ \E ok \in BOOLEAN :
         /\ gen_files_ok' = ok
         /\ IF ok THEN print("Flow check is clean!") ELSE print("Flow check failed!")
    /\ Goto("sim_version")
    /\ UNCHANGED <<argv, _generator_is, cryo_library, drc_filename, lvs_filename,
                   lib, drc_rpt, expected_ldo_rpt, lvs_rpt,
                   installed_ngspice_ver, sim_result, expected_sim_result, sim_state,
                   run_dir, run_files>>

NgspiceWarning ==
    "Warning: the ngspice version does not match, frequency results might not match! Please contact a maintainer of the repo."

\* Lines 115-132; with an argument the script ends here.
SimVersionCheck ==
    /\ pc = "sim_version" /\ status = "running"
    /\ IF SimCheckEnabled(argv)
       THEN \E v \in NgspiceVersions :
              /\ installed_ngspice_ver' = v
              /\ IF v # 0 /\ v = prev_ngspice_ver
                 THEN \E r \in SimResultFiles, e \in SimResultFiles :
                        /\ sim_result' = r
                        /\ expected_sim_result' = e
                        /\ UNCHANGED out
                        /\ IF readlines(r.text) # readlines(e.text)
                           THEN Raise("ValueError",
                                      "Simulations failed: simulation result file does not match!")
                           ELSE Goto("sim_state")
                 ELSE /\ UNCHANGED <<sim_result, expected_sim_result>>
                      /\ IF v # 0 THEN print(NgspiceWarning) ELSE UNCHANGED out
                      /\ Goto("sim_state")
       ELSE Exit /\ UNCHANGED <<out, installed_ngspice_ver, sim_result, expected_sim_result>>
    /\ UNCHANGED <<argv, _generator_is, cryo_library, drc_filename, lvs_filename,
                   json_filename, lib, drc_rpt, expected_ldo_rpt, lvs_rpt, gen_files_ok,
                   sim_state, run_dir, run_files>>

\* Lines 134-136
SimStateCheck ==
    /\ pc = "sim_state" /\ status = "running"
    /\ \E st \in SimStates :
         /\ sim_state' = st
         /\ IF st.failed_sims # 0
            THEN Raise("ValueError", "Simulations failed: Non zero failed simulations!")
            ELSE Goto("sim_runs")
    /\ UNCHANGED <<out, argv, _generator_is, cryo_library, drc_filename, lvs_filename,
                   json_filename, lib, drc_rpt, expected_ldo_rpt, lvs_rpt, gen_files_ok,
                   installed_ngspice_ver, sim_result, expected_sim_result,
                   run_dir, run_files>>

\* Lines 138-152.  The loop body lists simulations/run/ (line 140) and adds
\* the listing, a list, to a string (line 142): the first iteration raises
\* TypeError, so lines 143-150 are never reached and the loop completes only
\* when range(1, completed_sims + 1) is empty.
SimRunFolders ==
    /\ pc = "sim_runs" /\ status = "running"
    /\ IF 1 < sim_state.completed_sims + 1
       THEN \E d \in RunDirs, fs \in RunFileSets :
              /\ run_dir' = d
              /\ run_files' = fs
              /\ UNCHANGED out
              /\ IF ~d.exists
                 THEN Raise("FileNotFoundError", "simulations/run/")
                 ELSE Raise("TypeError", "can only concatenate str (not \"list\") to str")
       ELSE /\ print("Simulations are clean!")
            /\ Exit
            /\ UNCHANGED <<run_dir, run_files>>
    /\ UNCHANGED <<argv, _generator_is, cryo_library, drc_filename, lvs_filename,
                   json_filename, lib, drc_rpt, expected_ldo_rpt, lvs_rpt, gen_files_ok,
                   installed_ngspice_ver, sim_result, expected_sim_result, sim_state>>

Next ==
    \/ ModeResolution
    \/ CryoLibraryDiscovery
    \/ FilenameDeclaration
    \/ DRCCheck
    \/ LVSCheck
    \/ ResultFileCheck
    \/ SimVersionCheck
    \/ SimStateCheck
    \/ SimRunFolders

Spec == Init /\ [][Next]_vars

\* The process exit status once the run is over: 0 after falling off the
\* end of the script, 1 after an uncaught exception.
ExitStatus == IF status = "raised" THEN 1 ELSE 0

Terminated == status # "running"

\* Section p has run: control is past it, or it raised.
Acted(p) == Stage(pc) > Stage(p) \/ (pc = p /\ status = "raised")

\* Section p raised the exception that ended the run.
RaisedAt(p) == pc = p /\ status = "raised"

(***************************************************************************)
(* Vocabulary of the properties.                                           *)
(***************************************************************************)
DrcClean == "DRC is clean!"
LvsClean == "LVS is clean!"
FlowClean == "Flow check is clean!"
FlowFailed == "Flow check failed!"
SimClean == "Simulations are clean!"

ThreeCleanLines == <<DrcClean, LvsClean, FlowClean>>

Printed(line) == \E i \in 1..Len(out) : out[i] = line

TimesPrinted(line) == Cardinality({i \in 1..Len(out) : out[i] = line})

\* Every occurrence of line b in the output comes after an occurrence of a.
OnlyAfter(a, b) ==
    \A j \in 1..Len(out) : out[j] = b => \E i \in 1..(j - 1) : out[i] = a

\* The argument is the library that discovery found in flow/reports.
CryoMatched ==
    /\ Len(argv) > 1 /\ argv[2] # LDO
    /\ lib.exists /\ lib.entries # <<>> /\ argv[2] = lib.entries[1]

\* The DRC report was opened (the DRC section ran and its path was bound).
DrcOpened == Acted("drc") /\ ~(RaisedAt("drc") /\ err = "NameError")

(***************************************************************************)
(* C1.  After mode resolution exactly one of the three flags is 1, chosen  *)
(* by the argument list alone: no argument gives sky130hd_temp, a first    *)
(* argument 'sky130hvl_ldo' gives sky130hvl_ldo, any other first argument  *)
(* gives sky130XX_cryo with cryo_library the first entry of the listing of *)
(* flow/reports; cryo_library stays "" in the other two modes; and neither *)
(* the flags nor the discovered library change afterwards.                 *)
(***************************************************************************)
C1_ModeState ==
    Stage(pc) > Stage("mode") =>
        /\ \A m \in {LDO, TEMP, CRYO} : _generator_is[m] \in {0, 1}
        /\ Cardinality({m \in {LDO, TEMP, CRYO} : _generator_is[m] = 1}) = 1
        /\ Len(argv) = 1 => _generator_is[TEMP] = 1
        /\ (Len(argv) > 1 /\ argv[2] = "sky130hvl_ldo") => _generator_is[LDO] = 1
        /\ (Len(argv) > 1 /\ argv[2] # "sky130hvl_ldo") =>
              /\ _generator_is[CRYO] = 1
              /\ Stage(pc) > Stage("discover") => cryo_library = lib.entries[1]
        /\ _generator_is[CRYO] = 0 => cryo_library = ""

C1_ModeResolution ==
    /\ []C1_ModeState
    /\ [][/\ Stage(pc) > Stage("mode") => _generator_is' = _generator_is
          /\ Stage(pc) > Stage("discover") => cryo_library' = cryo_library
          /\ argv' = argv]_vars

C1_Witness ==
    /\ status = "exited"
    /\ _generator_is[CRYO] = 1
    /\ Len(lib.entries) = 2
    /\ cryo_library = "sky130hs_cryo"

(***************************************************************************)
(* C2.  In the non-LDO modes with a bound report path (temp-sense, cryo    *)
(* with matching argument) the DRC check prints 'DRC is clean!' and goes   *)
(* on iff the report has at most 3 lines, and raises 'DRC failed!'         *)
(* otherwise; 0 and 3 lines pass, 4 lines fail.                            *)
(***************************************************************************)
C2_DrcLineCount ==
    (Acted("drc") /\ _generator_is[LDO] = 0 /\ drc_filename # Unbound /\ drc_rpt.exists) =>
        LET n == CountLines(drc_rpt.text)
            passed == Stage(pc) > Stage("drc") /\ Len(out) >= 1 /\ out[1] = DrcClean
            failed == /\ RaisedAt("drc") /\ err = "ValueError" /\ errmsg = "DRC failed!"
                      /\ out = <<>>
        IN  /\ passed <=> n <= 3
            /\ failed <=> n > 3
            /\ n \in {0, 3} => passed
            /\ n = 4 => failed

C2_Witness ==
    /\ CryoMatched
    /\ Stage(pc) > Stage("drc")
    /\ drc_rpt.exists /\ CountLines(drc_rpt.text) = 3
    /\ out[1] = DrcClean

(***************************************************************************)
(* C3.  The LVS check fails iff 'failed' (lower case) occurs in the last   *)
(* line of the report when the argument equals the discovered cryo         *)
(* library, and iff it occurs anywhere in the report in temp-sense and LDO *)
(* mode; otherwise it prints 'LVS is clean!'.  'Failed' does not count.    *)
(***************************************************************************)
C3_LvsCheck ==
    (Acted("lvs") /\ lvs_rpt.exists) =>
        LET passed == Stage(pc) > Stage("lvs") /\ out = <<DrcClean, LvsClean>> \o SubSeq(out, 3, Len(out))
            failed == /\ RaisedAt("lvs") /\ err = "ValueError" /\ errmsg = "LVS failed!"
                      /\ out = <<DrcClean>>
            hit == IF Len(argv) > 1 /\ argv[2] = cryo_library
                   THEN Contains(TailLastLine(lvs_rpt.text), "failed")
                   ELSE Contains(lvs_rpt.text, "failed")
        IN  /\ failed <=> hit
            /\ passed <=> ~hit
            /\ lvs_rpt.text \in {"Failed\n", "Failed"} => passed

C3_Witness ==
    /\ CryoMatched
    /\ lvs_rpt = File("lvs failed!\nok\n")
    /\ Stage(pc) > Stage("lvs")
    /\ Printed(LvsClean)

(***************************************************************************)
(* C4.  With no argument, failed_sims = 0 and completed_sims = 2, the run  *)
(* folder check passes and prints 'Simulations are clean!' when the        *)
(* parameter, log and spice file of both run folders exist, and raises     *)
(* when one of them is missing.                                            *)
(***************************************************************************)
C4_RunFolderCheck ==
    (/\ Len(argv) = 1 /\ Acted("sim_runs")
     /\ sim_state.failed_sims = 0 /\ sim_state.completed_sims = 2
     /\ run_dir.exists) =>
        LET complete == \A i \in 1..sim_state.completed_sims : RunFileNames(i) \subseteq run_files
        IN  /\ complete => status = "exited" /\ Printed(SimClean)
            /\ ~complete => status = "raised"

(***************************************************************************)
(* C5 as stated: nothing of a later check is printed after a DRC or LVS    *)
(* error, each success line is printed at most once, and only after the    *)
(* success lines of all earlier checks.                                    *)
(***************************************************************************)
C5_NothingAfterError ==
    /\ RaisedAt("drc") => \A l \in {LvsClean, FlowClean, FlowFailed, SimClean} : ~Printed(l)
    /\ RaisedAt("lvs") => \A l \in {FlowClean, FlowFailed, SimClean} : ~Printed(l)
    /\ \A l \in {DrcClean, LvsClean, FlowClean, SimClean} : TimesPrinted(l) <= 1

C5_Original ==
    /\ C5_NothingAfterError
    /\ OnlyAfter(DrcClean, LvsClean)
    /\ OnlyAfter(DrcClean, FlowClean) /\ OnlyAfter(LvsClean, FlowClean)
    /\ OnlyAfter(DrcClean, SimClean) /\ OnlyAfter(LvsClean, SimClean)
    /\ OnlyAfter(FlowClean, SimClean)

(***************************************************************************)
(* C5 amended: the sections run in script order without going back, a      *)
(* raised error ends the run, nothing of a later check is printed after a  *)
(* DRC or LVS error, each success line is printed at most once, 'LVS is    *)
(* clean!' only after 'DRC is clean!', the flow-check line only after      *)
(* both, and 'Simulations are clean!' only after both and after a          *)
(* flow-check line, which may be 'Flow check failed!'.                     *)
(***************************************************************************)
C5_OrderState ==
    /\ C5_NothingAfterError
    /\ OnlyAfter(DrcClean, LvsClean)
    /\ \A f \in {FlowClean, FlowFailed} : OnlyAfter(DrcClean, f) /\ OnlyAfter(LvsClean, f)
    /\ OnlyAfter(DrcClean, SimClean) /\ OnlyAfter(LvsClean, SimClean)
    /\ \A j \in 1..Len(out) :
          out[j] = SimClean => \E i \in 1..(j - 1) : out[i] \in {FlowClean, FlowFailed}

C5_FailFastOrdering ==
    /\ []C5_OrderState
    /\ [][/\ Stage(pc') >= Stage(pc)
          /\ status # "running" => UNCHANGED vars
          /\ status' = "running" => Stage(pc') = Stage(pc) + 1
          /\ Len(out') >= Len(out) /\ SubSeq(out', 1, Len(out)) = out]_vars

C5_Witness ==
    /\ status = "exited"
    /\ Printed(FlowFailed)
    /\ out[Len(out)] = SimClean

(***************************************************************************)
(* C6 as stated, on the runs that read all three inputs: a DRC report of   *)
(* exactly 3 lines, an LVS report without 'failed' and a true flow check   *)
(* end the run with exit status 0 and exactly the three clean lines.       *)
(***************************************************************************)
C6_Original ==
    (/\ Terminated /\ Acted("flow")
     /\ drc_rpt.exists /\ CountLines(drc_rpt.text) = 3
     /\ lvs_rpt.exists /\ ~Contains(lvs_rpt.text, "failed")
     /\ gen_files_ok) =>
        status = "exited" /\ ExitStatus = 0 /\ out = ThreeCleanLines

(***************************************************************************)
(* C6 amended: given an LVS report without 'failed' and a true flow check, *)
(* the run exits 0 with exactly the three clean lines in cryo mode with a  *)
(* matching argument when the DRC report has exactly 3 lines, and in LDO   *)
(* mode when the DRC report equals the expected report; with no argument   *)
(* and a 3-line DRC report the three clean lines are printed first and the *)
(* run goes on into the simulation check, which alone can still fail it.   *)
(***************************************************************************)
C6_LvsAndFlowGiven ==
    /\ Acted("lvs") => lvs_rpt.exists /\ ~Contains(lvs_rpt.text, "failed")
    /\ Acted("flow") => gen_files_ok

C6_ThreeLineDrcGiven ==
    DrcOpened => drc_rpt.exists /\ CountLines(drc_rpt.text) = 3

C6_EndToEnd ==
    Terminated =>
        /\ (CryoMatched /\ C6_ThreeLineDrcGiven /\ C6_LvsAndFlowGiven) =>
              status = "exited" /\ ExitStatus = 0 /\ out = ThreeCleanLines
        /\ (/\ Len(argv) > 1 /\ argv[2] = LDO
            /\ Acted("drc") => (drc_rpt.exists /\ drc_rpt.text = expected_ldo_rpt.text)
            /\ C6_LvsAndFlowGiven) =>
              status = "exited" /\ ExitStatus = 0 /\ out = ThreeCleanLines
        /\ (Len(argv) = 1 /\ C6_ThreeLineDrcGiven /\ C6_LvsAndFlowGiven) =>
              /\ Len(out) >= 3 /\ SubSeq(out, 1, 3) = ThreeCleanLines
              /\ pc \in {"sim_version", "sim_state", "sim_runs", "end"}
              /\ status = "exited" => out[Len(out)] = SimClean

C6_Witness ==
    /\ Len(argv) > 1 /\ argv[2] = LDO
    /\ status = "exited"
    /\ lvs_rpt.text = "Failed\n"
    /\ Len(readlines(drc_rpt.text)) = 2
    /\ out = ThreeCleanLines

(***************************************************************************)
(* C7 as stated: in cryo mode an empty or an absent flow/reports fails the *)
(* run during mode resolution with a LookupError, before any message.      *)
(***************************************************************************)
C7_Original ==
    (_generator_is[CRYO] = 1 /\ Acted("discover") /\ (~lib.exists \/ lib.entries = <<>>)) =>
        RaisedAt("discover") /\ out = <<>> /\ err \in LookupErrorKinds

(***************************************************************************)
(* C7 amended: in cryo mode an empty flow/reports fails the run during     *)
(* mode resolution with IndexError (a LookupError) and an absent one with  *)
(* FileNotFoundError (an OSError, not a LookupError), in both cases before *)
(* any message is printed.                                                 *)
(***************************************************************************)
C7_DiscoveryError ==
    (_generator_is[CRYO] = 1 /\ Acted("discover") /\ (~lib.exists \/ lib.entries = <<>>)) =>
        /\ RaisedAt("discover") /\ out = <<>>
        /\ (lib.exists /\ lib.entries = <<>>) => err = "IndexError" /\ err \in LookupErrorKinds
        /\ ~lib.exists => err = "FileNotFoundError" /\ err \notin LookupErrorKinds

C7_Witness ==
    /\ _generator_is[CRYO] = 1
    /\ RaisedAt("discover")
    /\ lib = Dir(<<>>)
    /\ err = "IndexError"

(***************************************************************************)
(* C8.  The validator is given 'spec.json' exactly in sky130hvl_ldo mode   *)
(* and 'test.json' otherwise; when it returns false the run prints 'Flow   *)
(* check failed!' and does not raise: with no argument it goes on into the *)
(* simulation check, and with an argument it exits 0.                      *)
(***************************************************************************)
C8_FlowCheckLogOnly ==
    Acted("flow") =>
        /\ json_filename = "spec.json" <=> _generator_is[LDO] = 1
        /\ json_filename = "test.json" <=> _generator_is[LDO] = 0
        /\ ~RaisedAt("flow")
        /\ ~gen_files_ok =>
              /\ out[3] = FlowFailed /\ ~Printed(FlowClean)
              /\ Len(argv) = 1 =>
                    /\ pc \in {"sim_version", "sim_state", "sim_runs", "end"}
                    /\ (pc = "sim_version" /\ status = "running") => ENABLED SimVersionCheck
              /\ Len(argv) > 1 =>
                    /\ status # "raised"
                    /\ Terminated => status = "exited" /\ ExitStatus = 0 /\ Len(out) = 3
        /\ gen_files_ok => out[3] = FlowClean /\ ~Printed(FlowFailed)

C8_Witness ==
    /\ _generator_is[LDO] = 1
    /\ status = "exited"
    /\ ~gen_files_ok
    /\ json_filename = "spec.json"
    /\ out[3] = FlowFailed

(***************************************************************************)
(* C9.  In cryo mode with an argument different from the discovered        *)
(* library the DRC and LVS paths are never assigned, nothing is printed,   *)
(* no check passes, and the run ends at the DRC check, the first use of    *)
(* the paths, with NameError.                                              *)
(***************************************************************************)
C9_UnboundPaths ==
    (_generator_is[CRYO] = 1 /\ argv[2] # cryo_library) =>
        /\ drc_filename = Unbound /\ lvs_filename = Unbound
        /\ out = <<>>
        /\ Stage(pc) <= Stage("drc")
        /\ Stage(pc) > Stage("discover") =>
              /\ Terminated => RaisedAt("drc") /\ err = "NameError"
              /\ (pc = "drc" /\ status = "running") => ENABLED DRCCheck

C9_Witness ==
    /\ _generator_is[CRYO] = 1
    /\ Len(lib.entries) = 2 /\ argv[2] = lib.entries[2]
    /\ RaisedAt("drc") /\ err = "NameError"

(***************************************************************************)
(* C10.  The simulation check runs only when no argument was given; the    *)
(* result file is compared with the fixture only when the installed        *)
(* ngspice version is 41; another version only prints the warning and      *)
(* does not fail the check; a non-zero failed_sims raises whatever the      *)
(* version.                                                                *)
(***************************************************************************)
C10_SimulationGating ==
    /\ Len(argv) > 1 =>
          /\ pc \notin {"sim_state", "sim_runs"}
          /\ ~RaisedAt("sim_version")
          /\ ~Printed(SimClean) /\ ~Printed(NgspiceWarning)
          /\ ~sim_result.exists
    /\ sim_result.exists => installed_ngspice_ver = 41
    /\ RaisedAt("sim_version") =>
          /\ installed_ngspice_ver = 41
          /\ sim_result.text # expected_sim_result.text
    /\ (Len(argv) = 1 /\ Acted("sim_version")) =>
          /\ (installed_ngspice_ver = 41 /\ sim_result.text # expected_sim_result.text)
                => RaisedAt("sim_version")
          /\ installed_ngspice_ver \notin {0, 41} =>
                /\ Stage(pc) > Stage("sim_version")
                /\ TimesPrinted(NgspiceWarning) = 1
          /\ installed_ngspice_ver \in {0, 41} => ~Printed(NgspiceWarning)
    /\ (Acted("sim_state") /\ sim_state.failed_sims # 0) =>
          /\ RaisedAt("sim_state") /\ err = "ValueError"
          /\ errmsg = "Simulations failed: Non zero failed simulations!"

C10_Witness ==
    /\ installed_ngspice_ver = 42
    /\ Printed(NgspiceWarning)
    /\ sim_state.failed_sims = 1
    /\ RaisedAt("sim_state")

====
